---------------------------- MODULE Spec2Model ----------------------------
(***************************************************************************)
(* comorbidipy: comorbidity(), hfrs() and disability() of                  *)
(* src/comorbidipy/calculator.py with assignzero() of                      *)
(* src/comorbidipy/assignzero.py, as batch transforms of a table of        *)
(* (identifier, code, age) rows.                                           *)
(*                                                                         *)
(* A data frame is a sequence of rows; a row is a function from column     *)
(* names to cell values.  A string cell (an ICD code) is a sequence of     *)
(* one-character strings, so that startswith, lstrip, slicing and upper    *)
(* are computed character by character.  None/NaN is IdNone in an          *)
(* identifier column and CodeNone in a code column.                        *)
(*                                                                         *)
(* mapping.py, weights.py and colnames.py are not among the source files:  *)
(* the tables below hold the codes and weights that                        *)
(* src/tests/test_comorbidity.py states, restricted to the categories of   *)
(* the exclusion pairs of assignzero.py and one unpaired category.         *)
(* survival_10yr (calculator.py 153-156) needs real exponentiation and is  *)
(* not modelled; no property below reads it.                               *)
(***************************************************************************)
EXTENDS Integers, Sequences, FiniteSets, TLC

VARIABLES names, rows, pc, args, result, frame

vars == <<names, rows, pc, args, result, frame>>

\* Largest number of rows of an input table: of Spec, SpecAge and SpecHfrs,
\* of SpecClassify, of SpecScore.
MaxRows == 2
MaxClassifyRows == 3
MaxScoreRows == 3

IdNone == "None"
CodeNone == <<"None">>
NoAge == "None"

-----------------------------------------------------------------------------
(* String helpers *)

startswith(s, p) == Len(p) <= Len(s) /\ SubSeq(s, 1, Len(p)) = p

\* i.startswith(tuple(v))
startswithAny(s, v) == \E p \in v : startswith(s, p)

Whitespace == {" ", "\t"}

RECURSIVE lstrip(_)
lstrip(s) ==
  IF s # <<>> /\ Head(s) \in Whitespace THEN lstrip(Tail(s)) ELSE s

\* x[0:3]
slice3(s) == SubSeq(s, 1, IF Len(s) < 3 THEN Len(s) ELSE 3)

\* str.upper on the letters the codes of the model hold.
upperChar(ch) ==
  CASE ch = "f" -> "F"
    [] ch = "n" -> "N"
    [] ch = "g" -> "G"
    [] OTHER -> ch

upper(s) == [i \in 1..Len(s) |-> upperChar(s[i])]

-----------------------------------------------------------------------------
(* Data frame helpers *)

\* The rows of s whose index is in keep, in order.
SeqOfIdx(s, keep) ==
  LET F[i \in 0..Len(s)] ==
        IF i = 0 THEN <<>>
        ELSE IF i \in keep THEN Append(F[i - 1], s[i]) ELSE F[i - 1]
  IN F[Len(s)]

\* df[[c1, c2, ...]]
select(df, cols) == [i \in 1..Len(df) |-> [c \in cols |-> df[i][c]]]

\* df.drop_duplicates(subset=key): the first row of each key value is kept.
drop_duplicates(df, key) ==
  SeqOfIdx(df, {i \in 1..Len(df) :
                  \A j \in 1..(i - 1) : \E c \in key : df[j][c] # df[i][c]})

\* df.dropna(subset=[id, code])
dropna(df, id, code) ==
  SelectSeq(df, LAMBDA r : r[id] # IdNone /\ r[code] # CodeNone)

\* df[col].unique()
unique(df, col) == {df[i][col] : i \in 1..Len(df)}

Max(a, b) == IF a >= b THEN a ELSE b
Min(a, b) == IF a <= b THEN a ELSE b

RECURSIVE SumOver(_, _)
SumOver(S, f) ==
  IF S = {} THEN 0
  ELSE LET x == CHOOSE y \in S : TRUE IN f[x] + SumOver(S \ {x}, f)

-----------------------------------------------------------------------------
(* Lookup tables (mapping.py, weights.py, colnames.py, not in the sources) *)

B20 == <<"B", "2", "0">>
E120 == <<"E", "1", "2", "0">>
E117 == <<"E", "1", "1", "7">>
K746 == <<"K", "7", "4", "6">>
K702 == <<"K", "7", "0", "2">>
K721 == <<"K", "7", "2", "1">>
C18 == <<"C", "1", "8">>
C79 == <<"C", "7", "9">>
I10 == <<"I", "1", "0">>
I110 == <<"I", "1", "1", "0">>
Z99 == <<"Z", "9", "9">>
H540 == <<"H", "5", "4", "0">>

\* A dict of category -> prefixes, as the sequence of its items in iteration
\* order.  The codes of "shmi" are those of test_combinations.  "coarse"
\* is a table whose prefix sets overlap (K721 starts with "K7" of mld and
\* with "K721" of msld): the case of a code matched by several categories.
charlson_icd10_shmi ==
  << [k |-> "mld", v |-> {<<"K", "7", "4">>, K702}],
     [k |-> "diab", v |-> {E120}],
     [k |-> "diabwc", v |-> {E117}],
     [k |-> "canc", v |-> {C18, <<"C", "2", "5">>}],
     [k |-> "msld", v |-> {K721, <<"K", "7", "6", "7">>}],
     [k |-> "metacanc", v |-> {C79}],
     [k |-> "aids", v |-> {B20}] >>

charlson_icd10_coarse ==
  << [k |-> "mld", v |-> {<<"K", "7">>}],
     [k |-> "diab", v |-> {E120}],
     [k |-> "diabwc", v |-> {E117}],
     [k |-> "canc", v |-> {C18, <<"C", "2", "5">>}],
     [k |-> "msld", v |-> {K721, <<"K", "7", "6", "7">>}],
     [k |-> "metacanc", v |-> {C79}],
     [k |-> "aids", v |-> {B20}] >>

elixhauser_icd10_quan ==
  << [k |-> "hypunc", v |-> {I10}],
     [k |-> "hypc", v |-> {<<"I", "1", "1">>}],
     [k |-> "diabunc", v |-> {E120}],
     [k |-> "diabc", v |-> {E117}],
     [k |-> "metacanc", v |-> {C79}],
     [k |-> "solidtum", v |-> {C18, <<"C", "2", "5">>}] >>

\* mapping, keyed by the (score, icd, variant) of f"{score}_{icd}_{variant}".
mappingKeys ==
  { <<"charlson", "icd10", "shmi">>, <<"charlson", "icd10", "coarse">>,
    <<"elixhauser", "icd10", "quan">> }

mapping(key) ==
  CASE key = <<"charlson", "icd10", "shmi">> -> charlson_icd10_shmi
    [] key = <<"charlson", "icd10", "coarse">> -> charlson_icd10_coarse
    [] key = <<"elixhauser", "icd10", "quan">> -> elixhauser_icd10_quan

\* The SHMI weights of test_combinations.
shmi ==
  [mld |-> 8, diab |-> 3, diabwc |-> -1, canc |-> 8, msld |-> 18,
   metacanc |-> 14, aids |-> 2]

\* The SHMI table without its entry for aids: a weight table that has no
\* entry for a category of the mapping table.
shmi_partial ==
  [mld |-> 8, diab |-> 3, diabwc |-> -1, canc |-> 8, msld |-> 18,
   metacanc |-> 14]

\* Neither the tests nor the specification state Elixhauser weights: every
\* category has a weight of its own, so that a category counted wrongly
\* shows in the sum.
elix ==
  [hypunc |-> 1, hypc |-> 2, diabunc |-> 5, diabc |-> 3, metacanc |-> 12,
   solidtum |-> 4]

\* weights[param_score]
weights(param_score) ==
  IF param_score[1] = "charlson"
  THEN [shmi |-> shmi, shmi_partial |-> shmi_partial]
  ELSE [elix |-> elix]

get_colnames(score) ==
  IF score = "charlson"
  THEN {"mld", "diab", "diabwc", "canc", "msld", "metacanc", "aids"}
  ELSE {"hypunc", "hypc", "diabunc", "diabc", "metacanc", "solidtum"}

\* impairments of disability(): a table with an overlap ("H540" starts
\* with "H54" of visual and with "H5" of sensory).
impairments ==
  << [k |-> "visual", v |-> {<<"H", "5", "4">>}],
     [k |-> "sensory", v |-> {<<"H", "5">>, <<"H", "9">>}] >>

-----------------------------------------------------------------------------
(* assignzero.py *)

\* df.lesser = df.lesser.where(df.greater == 0, 0), on every row of the frame
suppress(val, lesser, greater) ==
  [i \in DOMAIN val |->
     [val[i] EXCEPT ![lesser] = IF val[i][greater] = 0 THEN @ ELSE 0]]

\* The columns assignzero reads and assigns as attributes of the frame
\* (AttributeError when the frame has no such column).
assignzero_columns(score) ==
  IF score[1] = "charlson"
  THEN {"mld", "msld", "diab", "diabwc", "canc", "metacanc"}
  ELSE IF score[1] = "elixhauser"
  THEN {"hypunc", "hypc", "diabunc", "diabc", "solidtum", "metacanc"}
  ELSE {}

\* The exclusion turned round: the greater category is zeroed where the
\* lesser is present.
assignzero_swapped(val, score) ==
  IF score[1] = "charlson"
  THEN suppress(suppress(suppress(val, "msld", "mld"), "diabwc", "diab"),
                "metacanc", "canc")
  ELSE suppress(suppress(suppress(val, "hypc", "hypunc"), "diabc", "diabunc"),
                "metacanc", "solidtum")

assignzero(val, score) ==
  IF score[1] = "charlson"
  THEN suppress(suppress(suppress(val, "mld", "msld"), "diab", "diabwc"),
                "canc", "metacanc")
  ELSE IF score[1] = "elixhauser"
  THEN suppress(suppress(suppress(val, "hypunc", "hypc"), "diabunc", "diabc"),
                "solidtum", "metacanc")
  ELSE val

-----------------------------------------------------------------------------
(* calculator.py: comorbidity *)

\* df.multiply(w).sum(axis=1): the columns are aligned with the index of w;
\* a column without a weight, or a weight without a column, gives NaN, and
\* sum skips NaN.
weighted_sum(val, columns, w) ==
  [i \in DOMAIN val |->
     SumOver(columns \cap DOMAIN w, [c \in columns \cap DOMAIN w |-> val[i][c] * w[c]])]

\* The floor left out.
floor_none(s) == s

\* s.where(s >= 0, 0)
floor_at_zero(s) == [i \in DOMAIN s |-> IF s[i] >= 0 THEN s[i] ELSE 0]

\* _calculate_weighted_score: the frame dfp with its comorbidity_score
\* column, and the sum before the floor.
calculate_weighted_score(dfp, param_score, assign0, weighting) ==
  LET df == IF assign0 THEN assignzero(dfp.val, param_score) ELSE dfp.val
      w == weights(param_score)[weighting]
      s == weighted_sum(df, dfp.columns, w)
      f == floor_at_zero(s)
  IN [columns |-> dfp.columns \cup {"comorbidity_score"},
      val |-> [i \in DOMAIN dfp.val |->
                 [c \in dfp.columns \cup {"comorbidity_score"} |->
                    IF c = "comorbidity_score" THEN f[i] ELSE dfp.val[i][c]]],
      sum |-> s]

\* The lower clamp left out.
age_score_unclamped(a) == Min((a - 40) \div 10, 4)

\* min(max(0, x), 4) of (age - 40) // 10
age_score(a) == Min(Max(0, (a - 40) \div 10), 4)

\* _age_adjust on one row of the merged frame
age_adjust(r, age) ==
  [c \in DOMAIN r \cup {"age_adj_comorbidity_score"} |->
     IF c = "age_adj_comorbidity_score"
     THEN r["comorbidity_score"] + age_score(r[age])
     ELSE r[c]]

\* The category a code is left with by the dict comprehension
\*   {i: k for i in codes for k, v in table.items() if i.startswith(tuple(v))}:
\* every matching k is stored under the key i in turn.  NoCategory: no k matched.
NoCategory == "None"

\* The first matching category kept (a loop that stops at its first match).
category_first(i, table) ==
  LET R[n \in 0..Len(table)] ==
        IF n = 0 THEN NoCategory
        ELSE IF R[n - 1] # NoCategory THEN R[n - 1]
        ELSE IF startswithAny(i, table[n].v) THEN table[n].k ELSE NoCategory
  IN R[Len(table)]

category_of(i, table) ==
  LET R[n \in 0..Len(table)] ==
        IF n = 0 THEN NoCategory
        ELSE IF startswithAny(i, table[n].v) THEN table[n].k ELSE R[n - 1]
  IN R[Len(table)]

reverse_mapping(codes, table) ==
  [i \in {c \in codes : category_of(c, table) # NoCategory} |->
     category_of(i, table)]

\* df[code].where(df[code].isin(rm)).dropna(subset=[code])
\*   .drop_duplicates(subset=[id, code]), then df[code].replace(rm)
keep_mapped(df, id, code, rm) ==
  LET kept == drop_duplicates(SelectSeq(df, LAMBDA r : r[code] \in DOMAIN rm),
                              {id, code})
  IN [i \in 1..Len(kept) |-> [kept[i] EXCEPT ![code] = rm[@]]]

\* The second drop_duplicates left out.
dedup_none(df, id, code) == df

\* df.drop_duplicates(subset=[id, code]) after the replacement
dedup_mapped(df, id, code) == drop_duplicates(df, {id, code})

\* df.pivot(index=id, columns=code, values="tmp").fillna(0); pivot raises
\* ValueError when an (index, column) pair occurs twice.
pivot_ok(df, id, code) ==
  \A i, j \in 1..Len(df) :
     (df[i][id] = df[j][id] /\ df[i][code] = df[j][code]) => i = j

pivot(df, id, code) ==
  LET idx == unique(df, id)
      cs == unique(df, code)
  IN [columns |-> cs,
      val |-> [i \in idx |->
                 [c \in cs |->
                    IF \E n \in 1..Len(df) : df[n][id] = i /\ df[n][code] = c
                    THEN 1 ELSE 0]]]

\* The back-fill left out.
backfill_none(dfp, colnames) == dfp

\* for c in colnames: if c not in dfp.columns: dfp[c] = 0
backfill(dfp, colnames) ==
  [columns |-> dfp.columns \cup colnames,
   val |-> [i \in DOMAIN dfp.val |->
              [c \in dfp.columns \cup colnames |->
                 IF c \in dfp.columns THEN dfp.val[i][c] ELSE 0]]]

\* dfid.merge(dfp, on=id, how="left").fillna(0)
merge_left(dfid, dfp, id) ==
  [n \in 1..Len(dfid) |->
     [c \in DOMAIN dfid[n] \cup dfp.columns |->
        IF c \in DOMAIN dfid[n] THEN dfid[n][c]
        ELSE IF dfid[n][id] \in DOMAIN dfp.val THEN dfp.val[dfid[n][id]][c]
        ELSE 0]]

\* The column drop_duplicates is keyed on when an age column is given.
dfid_subset(id) == "id"

\* dfid: the identifiers (with their age) the result has a row for.
\* drop_duplicates raises KeyError when its subset names no column of the
\* frame; it returns an empty frame as it is, whatever the subset.
dfid_error(df, id, age) ==
  age # NoAge /\ df # <<>> /\ dfid_subset(id) \notin {id, age}

make_dfid(df, id, age) ==
  IF age # NoAge
  THEN IF df = <<>> THEN <<>>
       ELSE drop_duplicates(select(df, {id, age}), {dfid_subset(id)})
  ELSE drop_duplicates(select(df, {id}), {id})

Raised(e) ==
  [status |-> e, columns |-> {}, rows |-> <<>>, attrs |-> <<>>]

NoFrame ==
  [reverse_mapping |-> <<>>, columns |-> {}, dfp |-> <<>>, sum |-> <<>>]

\* comorbidity(df, id, code, age, score, icd, variant, weighting, assign0):
\* what it returns or raises (out), and its locals at that point (frame).
comorbidity(columns, df0, a) ==
  LET key == <<a.score, a.icd, a.variant>>
      df1 == dropna(df0, a.id, a.code)
      dfid == make_dfid(df1, a.id, a.age)
      rm == reverse_mapping(unique(df1, a.code), mapping(key))
      df2 == dedup_mapped(keep_mapped(df1, a.id, a.code, rm), a.id, a.code)
      dfp0 == backfill(pivot(df2, a.id, a.code), get_colnames(a.score))
      dfp == calculate_weighted_score(dfp0, key, a.assign0, a.weighting)
      merged == merge_left(dfid, dfp, a.id)
      final == IF a.age # NoAge
               THEN [n \in 1..Len(merged) |-> age_adjust(merged[n], a.age)]
               ELSE merged
  IN IF a.id \notin columns \/ a.code \notin columns
     THEN [out |-> Raised("KeyError"), frame |-> NoFrame]
     ELSE IF a.age # NoAge /\ a.age \notin columns
     THEN [out |-> Raised("KeyError"), frame |-> NoFrame]
     ELSE IF dfid_error(df1, a.id, a.age)
     THEN [out |-> Raised("KeyError"), frame |-> NoFrame]
     ELSE IF key \notin mappingKeys
     THEN [out |-> Raised("KeyError"), frame |-> NoFrame]
     ELSE IF ~pivot_ok(df2, a.id, a.code)
     THEN [out |-> Raised("ValueError"),
           frame |-> [NoFrame EXCEPT !.reverse_mapping = rm]]
     ELSE IF a.assign0 /\ ~(assignzero_columns(key) \subseteq dfp0.columns)
     THEN [out |-> Raised("AttributeError"),
           frame |-> [NoFrame EXCEPT !.reverse_mapping = rm]]
     ELSE IF a.weighting \notin DOMAIN weights(key)
     THEN [out |-> Raised("KeyError"),
           frame |-> [NoFrame EXCEPT !.reverse_mapping = rm]]
     ELSE [out |-> [status |-> "ok",
                    columns |-> {a.id} \cup (IF a.age # NoAge THEN {a.age, "age_adj_comorbidity_score"} ELSE {})
                                  \cup dfp.columns,
                    rows |-> final,
                    attrs |-> [score |-> a.score, icd |-> a.icd,
                               variant |-> a.variant, weighting |-> a.weighting,
                               assign0 |-> a.assign0]],
           frame |-> [reverse_mapping |-> rm, columns |-> dfp0.columns,
                      dfp |-> dfp0.val, sum |-> dfp.sum]]

-----------------------------------------------------------------------------
(* calculator.py: hfrs *)

F00 == <<"F", "0", "0">>
F05 == <<"F", "0", "5">>
N39 == <<"N", "3", "9">>
G81 == <<"G", "8", "1">>

\* hfrs_mapping (mapping.py, not in the sources): 3-character key -> weight,
\* in tenths (F00 7.1, G81 4.4, F05 3.2, N39 3.2).
hfrs_mapping ==
  [k \in {F00, F05, N39, G81} |->
     CASE k = F00 -> 71 [] k = G81 -> 44 [] k = F05 -> 32 [] k = N39 -> 32]

\* _mapper: x.lstrip()[0:3].upper() if that is a key of hfrs_mapping, else None
mapper(x) ==
  LET k == upper(slice3(lstrip(x)))
  IN IF k \in DOMAIN hfrs_mapping THEN k ELSE CodeNone

\* The drop_duplicates after the mapping left out.
map_keys_all(df, id, code) ==
  LET m == [n \in 1..Len(df) |-> [df[n] EXCEPT ![code] = mapper(@)]]
  IN SelectSeq(m, LAMBDA r : r[code] # CodeNone)

\* df[code].apply(_mapper), then dropna().drop_duplicates()
map_keys(df, id, code) ==
  LET m == [n \in 1..Len(df) |-> [df[n] EXCEPT ![code] = mapper(@)]]
  IN drop_duplicates(SelectSeq(m, LAMBDA r : r[code] # CodeNone), {id, code})

RECURSIVE SumSeq(_)
SumSeq(s) == IF s = <<>> THEN 0 ELSE Head(s) + SumSeq(Tail(s))

\* df["hfrs"] = df[code].replace(hfrs_mapping); df.groupby(id)["hfrs"].sum()
group_sum(df, id, code) ==
  [i \in unique(df, id) |->
     SumSeq([n \in 1..Len(SelectSeq(df, LAMBDA r : r[id] = i)) |->
               hfrs_mapping[SelectSeq(df, LAMBDA r : r[id] = i)[n][code]]])]

hfrs(columns, df0, id, code) ==
  LET df1 == drop_duplicates(dropna(select(df0, {id, code}), id, code), {id, code})
      dfid == drop_duplicates(select(df1, {id}), {id})
      g == group_sum(map_keys(df1, id, code), id, code)
  IN IF id \notin columns \/ code \notin columns
     THEN Raised("KeyError")
     ELSE [status |-> "ok", columns |-> {id, "hfrs"},
           rows |-> merge_left(dfid, [columns |-> {"hfrs"},
                                      val |-> [i \in DOMAIN g |-> [c \in {"hfrs"} |-> g[i]]]], id),
           attrs |-> <<>>]

-----------------------------------------------------------------------------
(* calculator.py: disability *)

disability(columns, df0, id, code) ==
  LET df1 == dropna(df0, id, code)
      dfid == drop_duplicates(select(df1, {id}), {id})
      rm == reverse_mapping(unique(df1, code), impairments)
      df2 == dedup_mapped(keep_mapped(df1, id, code, rm), id, code)
      dfp == pivot(df2, id, code)
  IN IF id \notin columns \/ code \notin columns
     THEN [out |-> Raised("KeyError"), frame |-> NoFrame]
     ELSE IF ~pivot_ok(df2, id, code)
     THEN [out |-> Raised("ValueError"),
           frame |-> [NoFrame EXCEPT !.reverse_mapping = rm]]
     ELSE [out |-> [status |-> "ok", columns |-> {id} \cup dfp.columns,
                    rows |-> merge_left(dfid, dfp, id), attrs |-> <<>>],
           frame |-> [NoFrame EXCEPT !.reverse_mapping = rm]]

-----------------------------------------------------------------------------
(* The caller: a table is built row by row and one entry point is called *)

\* How the caller's table names its identifier and age columns; the code
\* column is "code".
Schemas ==
  { [id |-> "id", age |-> "age"],
    [id |-> "pid", age |-> "age"],
    [id |-> "pid", age |-> "id"] }

Columns == {names.id, "code", names.age}

Row(i, c, a) == (names.id :> i) @@ ("code" :> c) @@ (names.age :> a)

NotCalled == Raised("none")

Start(S) ==
  /\ names \in S
  /\ rows = <<>>
  /\ pc = "build"
  /\ args = [fn |-> "none"]
  /\ result = NotCalled
  /\ frame = NoFrame

Append_row(limit, I, C, A) ==
  /\ pc = "build"
  /\ Len(rows) < limit
  /\ \E i \in I, c \in C, a \in A : rows' = Append(rows, Row(i, c, a))
  /\ UNCHANGED <<names, pc, args, result, frame>>

Call_comorbidity(A) ==
  /\ pc = "build"
  /\ \E a \in A :
       LET r == comorbidity(Columns, rows, a)
       IN /\ args' = a
          /\ result' = r.out
          /\ frame' = r.frame
  /\ pc' = "done"
  /\ UNCHANGED <<names, rows>>

ComorbidityArgs(ids, ages, keys, weightings, assign0s) ==
  { [fn |-> "comorbidity", id |-> i, code |-> "code", age |-> g,
     score |-> k[1], icd |-> k[2], variant |-> k[3], weighting |-> w,
     assign0 |-> z] :
      i \in ids, g \in ages, k \in keys, w \in weightings, z \in assign0s }

Ids == {"p1", "p2"}

DefaultNames == [id |-> "id", age |-> "age"]

\* comorbidity's defaults: id="id", code="code", age="age", icd="icd10"
Shmi == <<"charlson", "icd10", "shmi">>
Coarse == <<"charlson", "icd10", "coarse">>
Elix == <<"elixhauser", "icd10", "quan">>

(* Spec: tables under every naming of the columns, with null identifiers   *)
(* and codes, a code of a category (K746) and a code of none (Z99).  The   *)
(* calls use the table's own column names, with and without age, and there *)
(* is one call each with a missing id column, a missing age column and an  *)
(* unknown (score, icd, variant).                                          *)
Init == Start(Schemas)

AddRow ==
  Append_row(MaxRows, Ids \cup {IdNone}, {K746, Z99, CodeNone}, {60, 70})

Comorbidity ==
  Call_comorbidity(
    ComorbidityArgs({names.id}, {NoAge, names.age}, {Shmi}, {"shmi"}, {TRUE})
    \cup ComorbidityArgs({"nid"}, {NoAge}, {Shmi}, {"shmi"}, {TRUE})
    \cup ComorbidityArgs({names.id}, {"nage"}, {Shmi}, {"shmi"}, {TRUE})
    \cup ComorbidityArgs({names.id}, {NoAge}, {<<"charlson", "icd9", "shmi">>},
                         {"shmi"}, {TRUE}))

Next == AddRow \/ Comorbidity

Spec == Init /\ [][Next]_vars

(* SpecClassify: two codes of one category (K746, K702), a code that       *)
(* starts with prefixes of two categories of "coarse" (K721), a code that  *)
(* starts with prefixes of two impairments (H540), a code of none (Z99).   *)
InitDefault == Start({DefaultNames})

AddCode ==
  Append_row(MaxClassifyRows, Ids, {K746, K702, K721, H540, Z99}, {60})

Classify ==
  Call_comorbidity(
    ComorbidityArgs({names.id}, {NoAge}, {Shmi, Coarse}, {"shmi"}, {TRUE}))

Disability ==
  /\ pc = "build"
  /\ LET r == disability(Columns, rows, names.id, "code")
     IN /\ result' = r.out
        /\ frame' = r.frame
  /\ args' = [fn |-> "disability", id |-> names.id, code |-> "code"]
  /\ pc' = "done"
  /\ UNCHANGED <<names, rows>>

NextClassify == AddCode \/ Classify \/ Disability

SpecClassify == InitDefault /\ [][NextClassify]_vars

(* SpecScore: one identifier with any codes of the categories of the       *)
(* exclusion pairs of both score families and of aids, scored with and     *)
(* without assign0 under every weight table.                               *)
AddDiagnosis ==
  Append_row(MaxScoreRows, {"p1"},
             {B20, E120, E117, K746, K721, C18, C79, I10, I110}, {60})

Score ==
  Call_comorbidity(
    ComorbidityArgs({names.id}, {NoAge}, {Shmi}, {"shmi", "shmi_partial"},
                    BOOLEAN)
    \cup ComorbidityArgs({names.id}, {NoAge}, {Elix}, {"elix"}, BOOLEAN))

NextScore == AddDiagnosis \/ Score

SpecScore == InitDefault /\ [][NextScore]_vars

(* SpecAge: ages on both sides of every decade boundary of _age_adjust,    *)
(* a negative age, and scores of 2 (B20) and 0 (E117, floored).            *)
Ages == {-5, 39, 40, 49, 50, 59, 60, 79, 80, 95}

AddAged == Append_row(MaxRows, Ids, {B20, E117}, Ages)

AgeAdjusted ==
  Call_comorbidity(
    ComorbidityArgs({names.id}, {names.age}, {Shmi}, {"shmi"}, {TRUE}))

NextAge == AddAged \/ AgeAdjusted

SpecAge == InitDefault /\ [][NextAge]_vars

(* SpecHfrs: codes with leading whitespace, lower case and more than three *)
(* characters (" f001"), two keys of one weight (F05, N39), a code shorter *)
(* than a key ("F0"), a code of no key (Z99), null identifiers and codes.  *)
AddHfrsRow ==
  Append_row(MaxRows, Ids \cup {IdNone},
             {F00, <<" ", "f", "0", "0", "1">>, F05, <<"n", "3", "9">>,
              <<"F", "0">>, Z99, CodeNone}, {80})

Hfrs ==
  /\ pc = "build"
  /\ result' = hfrs(Columns, rows, names.id, "code")
  /\ args' = [fn |-> "hfrs", id |-> names.id, code |-> "code"]
  /\ pc' = "done"
  /\ UNCHANGED <<names, rows, frame>>

NextHfrs == AddHfrsRow \/ Hfrs

SpecHfrs == InitDefault /\ [][NextHfrs]_vars

-----------------------------------------------------------------------------
(* Properties *)

Returned(fn) == pc = "done" /\ args.fn = fn /\ result.status = "ok"

\* The rows of the input with a non-null identifier and a non-null code.
NonNull == {n \in 1..Len(rows) : rows[n][args.id] # IdNone /\ rows[n]["code"] # CodeNone}

\* The identifiers that survive the null filter.
Surviving == {rows[n][args.id] : n \in NonNull}

\* The non-null codes of identifier i.
CodesOf(i) == {rows[n]["code"] : n \in {m \in NonNull : rows[m][args.id] = i}}

\* The categories of table t with a prefix that code c starts with.
Matching(c, t) == {t[n].k : n \in {m \in 1..Len(t) : startswithAny(c, t[m].v)}}

Taxonomy(t) == {t[n].k : n \in 1..Len(t)}

ActiveTable == mapping(<<args.score, args.icd, args.variant>>)

ResultIds == [n \in 1..Len(result.rows) |-> result.rows[n][args.id]]

\* C1: whenever comorbidity returns a result, the output has exactly one row
\* for each identifier that occurs in an input row with non-null identifier
\* and code, and no other rows, with and without an age column; an
\* identifier none of whose codes match a prefix has comorbidity_score 0
\* and every category flag 0.
C1_OneRowPerIdentifier ==
  Returned("comorbidity") =>
    /\ \A i \in Surviving :
         Cardinality({n \in 1..Len(result.rows) : ResultIds[n] = i}) = 1
    /\ \A n \in 1..Len(result.rows) :
         /\ ResultIds[n] \in Surviving
         /\ (\A c \in CodesOf(ResultIds[n]) : Matching(c, ActiveTable) = {}) =>
              /\ result.rows[n]["comorbidity_score"] = 0
              /\ \A k \in Taxonomy(ActiveTable) : result.rows[n][k] = 0

\* C10: for a table that contains the id, code and age columns, whatever
\* the name of the identifier column, comorbidity raises no missing-column
\* error and yields one row per identifier, exactly as the same call does
\* with age set to None.
C10_IdParameterHonoured ==
  (pc = "done" /\ args.fn = "comorbidity"
     /\ {args.id, args.code, args.age} \subseteq Columns) =>
    LET noage == comorbidity(Columns, rows, [args EXCEPT !.age = NoAge]).out
    IN /\ result.status = "ok"
       /\ ResultIds = [n \in 1..Len(noage.rows) |-> noage.rows[n][args.id]]

\* C5: whenever comorbidity returns a result, the output has one 0/1 column
\* for every category of the active (score, icd, variant) taxonomy, and the
\* column of a category that no code of the input matches is 0 in every row.
C5_EveryCategoryHasColumn ==
  Returned("comorbidity") =>
    \A k \in Taxonomy(ActiveTable) :
      /\ k \in result.columns
      /\ \A n \in 1..Len(result.rows) :
           k \in DOMAIN result.rows[n] /\ result.rows[n][k] \in {0, 1}
      /\ (\A m \in NonNull : k \notin Matching(rows[m]["code"], ActiveTable)) =>
           \A n \in 1..Len(result.rows) : result.rows[n][k] = 0

\* A result with a row whose identifier has a category, while no code of
\* the input matches another category of the taxonomy.
C5_Witness ==
  /\ Returned("comorbidity")
  /\ Len(result.rows) = 1
  /\ \E k \in Taxonomy(ActiveTable) : result.rows[1][k] = 1
  /\ \E k \in Taxonomy(ActiveTable) :
       /\ \A m \in NonNull : k \notin Matching(rows[m]["code"], ActiveTable)
       /\ result.rows[1][k] = 0

\* The keys of a dict or the index of a frame held in frame.
Keys(f) == IF f = <<>> THEN {} ELSE DOMAIN f

ScoreOf(n) == result.rows[n]["comorbidity_score"]

ActiveWeights == weights(<<args.score, args.icd, args.variant>>)[args.weighting]

\* C2: every row of the result of comorbidity has comorbidity_score >= 0,
\* under every weight table and both values of assign0: a weighted sum
\* below zero is replaced by 0, a sum of zero or more is left as it is.
C2_ScoreNeverNegative ==
  Returned("comorbidity") =>
    \A n \in 1..Len(result.rows) :
      /\ ScoreOf(n) >= 0
      /\ ResultIds[n] \in Keys(frame.sum) =>
           ScoreOf(n) = IF frame.sum[ResultIds[n]] < 0 THEN 0
                      ELSE frame.sum[ResultIds[n]]

\* A weighted sum below zero (SHMI diabwc = -1) returned as 0.
C2_Witness ==
  /\ Returned("comorbidity")
  /\ \E n \in 1..Len(result.rows) :
       /\ ResultIds[n] \in Keys(frame.sum)
       /\ frame.sum[ResultIds[n]] < 0
       /\ ScoreOf(n) = 0

\* The exclusion pairs (lesser, greater) of the score family.
Pairs ==
  IF args.score = "charlson"
  THEN {<<"mld", "msld">>, <<"diab", "diabwc">>, <<"canc", "metacanc">>}
  ELSE {<<"hypunc", "hypc">>, <<"diabunc", "diabc">>, <<"solidtum", "metacanc">>}

\* The categories identifier i has: those with a prefix one of its codes
\* starts with.
Present(i) == UNION {Matching(c, ActiveTable) : c \in CodesOf(i)}

BothPresent(i) == {p \in Pairs : p[1] \in Present(i) /\ p[2] \in Present(i)}

\* The categories that count: with assign0, not the lesser of a pair both
\* of whose categories the identifier has.
Counted(i) ==
  IF args.assign0 THEN Present(i) \ {p[1] : p \in BothPresent(i)}
  ELSE Present(i)

\* C3: with assign0, an identifier that has both categories of an exclusion
\* pair gets the greater category's weight alone from the pair in the sum
\* before the floor (also when it is the lower weight), and both flags are 1
\* in the returned table; without assign0 both weights are summed.  The
\* other categories add their weight.
C3_GreaterWeightAlone ==
  Returned("comorbidity") =>
    \A n \in 1..Len(result.rows) :
      LET i == ResultIds[n]
      IN /\ \A p \in BothPresent(i) :
              result.rows[n][p[1]] = 1 /\ result.rows[n][p[2]] = 1
         /\ Present(i) # {} =>
              /\ i \in Keys(frame.sum)
              /\ frame.sum[i] =
                   SumOver(Counted(i) \cap DOMAIN ActiveWeights, ActiveWeights)

\* diab (3) and diabwc (-1) under SHMI with assign0: the pair gives -1.
C3_Witness ==
  /\ Returned("comorbidity")
  /\ args.assign0 /\ args.weighting = "shmi"
  /\ Len(result.rows) = 1
  /\ Present(ResultIds[1]) = {"diab", "diabwc", "aids"}
  /\ frame.sum[ResultIds[1]] = 1
  /\ result.rows[1]["diab"] = 1 /\ result.rows[1]["diabwc"] = 1

\* C6: when the flag matrix has a category column for which the weight
\* table has no entry, comorbidity fails with an error and returns no
\* score.
C6_MissingWeightIsError ==
  (Returned("comorbidity") /\ Keys(frame.dfp) # {}) =>
    frame.columns \subseteq DOMAIN ActiveWeights

\* The categories the codes of identifier i were replaced with.
CatSet(i) ==
  {frame.reverse_mapping[c] : c \in CodesOf(i) \cap Keys(frame.reverse_mapping)}

\* C4: comorbidity_score depends only on the set of categories an
\* identifier's codes map to: a category counts once however many rows map
\* to it (the call returns, the pivot finds no pair twice), and two
\* identifiers with the same set of categories have the same score
\* whichever codes they carry.
C4_ScoreOfCategorySet ==
  (pc = "done" /\ args.fn = "comorbidity") =>
    /\ result.status = "ok"
    /\ \A n, m \in 1..Len(result.rows) :
         CatSet(ResultIds[n]) = CatSet(ResultIds[m]) => ScoreOf(n) = ScoreOf(m)

\* Two identifiers with the same category, one through two rows of
\* different codes, the other through one code.
C4_Witness ==
  /\ Returned("comorbidity")
  /\ \E n, m \in 1..Len(result.rows) :
       /\ CatSet(ResultIds[n]) = CatSet(ResultIds[m])
       /\ Cardinality(CatSet(ResultIds[n])) = 1
       /\ CodesOf(ResultIds[n]) \subseteq Keys(frame.reverse_mapping)
       /\ Cardinality(CodesOf(ResultIds[n])) = 2
       /\ Cardinality(CodesOf(ResultIds[m])) = 1
       /\ ScoreOf(n) = 8 /\ ScoreOf(m) = 8

\* The table the codes are classified with.
ClassifierTable == IF args.fn = "disability" THEN impairments ELSE ActiveTable

MatchingAt(c, t) == {m \in 1..Len(t) : startswithAny(c, t[m].v)}

FirstMatch(c, t) == t[CHOOSE m \in MatchingAt(c, t) : \A x \in MatchingAt(c, t) : m <= x].k

LastMatch(c, t) == t[CHOOSE m \in MatchingAt(c, t) : \A x \in MatchingAt(c, t) : m >= x].k

Pick(first, c, t) == IF first THEN FirstMatch(c, t) ELSE LastMatch(c, t)

\* The codes are classified by the first (or the last) match: the dict
\* holds exactly the non-null codes that start with a prefix, each under
\* the picked category, and a flag of the result is 1 exactly when a code
\* of the identifier is under that category.
ClassifiedBy(first) ==
  LET t == ClassifierTable
      rm == frame.reverse_mapping
      pick(c, u) == Pick(first, c, u)
  IN /\ Keys(rm) = {c \in {rows[n]["code"] : n \in NonNull} : MatchingAt(c, t) # {}}
     /\ \A c \in Keys(rm) : rm[c] = pick(c, t)
     /\ \A n \in 1..Len(result.rows) :
          \A k \in Taxonomy(t) :
            (k \in DOMAIN result.rows[n] /\ result.rows[n][k] = 1)
              <=> \E c \in CodesOf(ResultIds[n]) :
                     MatchingAt(c, t) # {} /\ pick(c, t) = k

\* C8 as claimed: in comorbidity and disability a code that starts with
\* prefixes of several categories is assigned to the first matching
\* category in the table's iteration order; a code that starts with no
\* prefix is assigned to none and dropped.
C8_FirstMatchWins ==
  (pc = "done" /\ result.status = "ok") => ClassifiedBy(TRUE)

\* C8 as amended: the code is assigned to the last matching category in the
\* table's iteration order.
C8_LastMatchWins ==
  (pc = "done" /\ result.status = "ok") => ClassifiedBy(FALSE)

\* A code of two categories, the first of them not the last.
C8_Witness ==
  /\ Returned("comorbidity")
  /\ \E c \in Keys(frame.reverse_mapping) :
       /\ Cardinality(MatchingAt(c, ClassifierTable)) = 2
       /\ FirstMatch(c, ClassifierTable) # LastMatch(c, ClassifierTable)
       /\ \E n \in 1..Len(result.rows) :
            result.rows[n][LastMatch(c, ClassifierTable)] = 1

AgeOf(n) == result.rows[n][args.age]

Decade(n) == result.rows[n]["age_adj_comorbidity_score"] - ScoreOf(n)

\* C9: with an age column, age_adj_comorbidity_score = comorbidity_score + d
\* with d = min(max(floor((age - 40) / 10), 0), 4): d is in 0..4, 0 below 50,
\* 4 from 80 on, the decade over 40 in between, non-decreasing in age, and
\* age_adj_comorbidity_score >= comorbidity_score >= 0.
C9_AgeAdjustment ==
  (Returned("comorbidity") /\ args.age # NoAge) =>
    \A n \in 1..Len(result.rows) :
      /\ Decade(n) \in 0..4
      /\ AgeOf(n) < 50 => Decade(n) = 0
      /\ AgeOf(n) >= 80 => Decade(n) = 4
      /\ (AgeOf(n) >= 50 /\ AgeOf(n) < 80) =>
           (40 + 10 * Decade(n) <= AgeOf(n) /\ AgeOf(n) < 50 + 10 * Decade(n))
      /\ \A m \in 1..Len(result.rows) :
           AgeOf(n) <= AgeOf(m) => Decade(n) <= Decade(m)
      /\ result.rows[n]["age_adj_comorbidity_score"] >= ScoreOf(n)
      /\ ScoreOf(n) >= 0

\* An age below 40 that adds nothing to a score of 2, and an age over 80
\* that adds 4.
C9_Witness ==
  /\ Returned("comorbidity") /\ args.age # NoAge
  /\ \E n, m \in 1..Len(result.rows) :
       /\ AgeOf(n) = 39 /\ ScoreOf(n) = 2
       /\ result.rows[n]["age_adj_comorbidity_score"] = 2
       /\ AgeOf(m) = 95
       /\ result.rows[m]["age_adj_comorbidity_score"] = ScoreOf(m) + 4

\* The normalized keys of identifier i that are in the HFRS map.
HfrsKeys(i) ==
  {upper(slice3(lstrip(c))) : c \in CodesOf(i)} \cap DOMAIN hfrs_mapping

\* C7: hfrs returns exactly one row for each identifier with a row of
\* non-null identifier and code; its hfrs is the sum of the weights of the
\* distinct normalized keys of the identifier's codes that are in the map,
\* each once, and 0 when there is none.
C7_HfrsSum ==
  (pc = "done" /\ args.fn = "hfrs") =>
    /\ result.status = "ok"
    /\ \A i \in Surviving :
         Cardinality({n \in 1..Len(result.rows) : ResultIds[n] = i}) = 1
    /\ \A n \in 1..Len(result.rows) :
         /\ ResultIds[n] \in Surviving
         /\ result.rows[n]["hfrs"] = SumOver(HfrsKeys(ResultIds[n]), hfrs_mapping)

\* Two different codes of one identifier with the same key, counted once.
C7_Witness ==
  /\ pc = "done" /\ args.fn = "hfrs" /\ result.status = "ok"
  /\ \E n \in 1..Len(result.rows) :
       /\ Cardinality(CodesOf(ResultIds[n])) = 2
       /\ {upper(slice3(lstrip(c))) : c \in CodesOf(ResultIds[n])} = {F00}
       /\ result.rows[n]["hfrs"] = 71

=============================================================================
